---- MODULE Spec2Model ----
(***************************************************************************)
(* Model of src/C++/Graph.cpp: the Edge / Edges / Graph data model and the *)
(* algorithms Dijkstra, BellmanFord, WarshallFloyd, add_edge_to_matrix,    *)
(* Kruskal, TopologicalSort and isBipartiteGraph.  The weight type T is    *)
(* instantiated with int, as in the file's usage example Graph<int> g(N).  *)
(* Vectors indexed from 0 are functions on 0..n-1; the Edges vectors, which *)
(* the code only appends to and iterates, are sequences.                   *)
(***************************************************************************)
EXTENDS Integers, Sequences, FiniteSets, TLC

\* ---------------------------------------------------------------- bounds
\* Number of vertices of every graph (g.size(), the argument vertex / V).
NumV == 3
\* Largest number of Edge objects held by a weighted graph (twice as many when
\* the graph is built with add_edge only).
MaxArcs == 3
\* Largest number of Edge objects held by an edge list.
MaxEdges == 2
\* Largest number of Edge objects held by a graph whose weights play no role
\* (the input of TopologicalSort).
MaxPlainArcs == 4

\* numeric_limits<int>::max()
TMax == 2147483647
\* const auto INF = numeric_limits< T >::max()/10;
INF == TMax \div 10

Vertices == 0 .. (NumV - 1)
\* The weights the inputs are drawn from.  Sums of them over the paths and the
\* relaxation steps of graphs of the sizes above stay far below INF in
\* absolute value, so no distance reaches the sentinel and no int addition
\* overflows.
Weights == {-1, 0, 2}
NonNegWeights == {0, 1, 2}
\* The weights of the directed graphs handed to WarshallFloyd.
MatrixWeights == {-1, 2}
\* T w = 1: the default weight.
DefaultWeight == {1}

VARIABLES
  g,      \* Graph<int> g(NumV): vertex -> its Edges, in insertion order
  edges,  \* Edges<int> edges: the caller's flat edge list
  mat,    \* Matrix<int> held by the caller (the value WarshallFloyd returned)
  order,  \* vector<int> order handed to TopologicalSort
  call,   \* the library function called last, with its arguments
  ret     \* the value that call returned

vars == <<g, edges, mat, order, call, ret>>

\* ------------------------------------------------------------ data model
\* Edge(int f, int t, T w)
Edge(f, t, w) == [from |-> f, to |-> t, weight |-> w]

\* g[from].emplace_back(from,to,w); g[to].emplace_back(to,from,w);
add_edge_forward_only(gr, from, to, w) ==
  [gr EXCEPT ![from] = Append(@, Edge(from, to, w))]
add_edge(gr, from, to, w) ==
  LET g1 == [gr EXCEPT ![from] = Append(@, Edge(from, to, w))]
  IN  [g1 EXCEPT ![to] = Append(@, Edge(to, from, w))]

\* g[from].emplace_back(from,to,w);
add_arc(gr, from, to, w) == [gr EXCEPT ![from] = Append(@, Edge(from, to, w))]

\* e.emplace_back(from,to,w);
add_to_edges(e, from, to, w) == Append(e, Edge(from, to, w))

\* Number of Edge objects stored in a graph.
RECURSIVE SumLen(_, _)
SumLen(gr, v) == IF v >= NumV THEN 0 ELSE Len(gr[v]) + SumLen(gr, v + 1)
ArcCount(gr) == SumLen(gr, 0)

\* All Edge objects of a graph / of an edge list, as a set.
ArcsOf(gr) == UNION {{gr[v][i] : i \in 1 .. Len(gr[v])} : v \in Vertices}
ArcsOfList(e) == {e[i] : i \in 1 .. Len(e)}

\* -------------------------------------------------------------- Dijkstra
\* que.top() of priority_queue<Pi, vector<Pi>, greater<Pi>>: an index of the
\* lexicographically least pair <<weight, idx>> held by the queue.
PairLess(p, q) == p[1] < q[1] \/ (p[1] = q[1] /\ p[2] < q[2])
TopIndex(que) ==
  CHOOSE k \in 1 .. Len(que) :
    \A j \in 1 .. Len(que) : ~PairLess(que[j], que[k]) /\ (que[j] = que[k] => k <= j)

\* que.pop(): the queue without its top element.
Pop(que) ==
  LET k == TopIndex(que)
  IN  [i \in 1 .. (Len(que) - 1) |-> IF i < k THEN que[i] ELSE que[i + 1]]

\* auto next_weight = weight + e.weight;
NextWeightEdgeOnly(weight, e) == e.weight
NextWeight(weight, e) == weight + e.weight

\* for (auto &e : g[idx]) { ... }, from the i-th edge on; yields <<dist, que>>.
RECURSIVE RelaxFrom(_, _, _, _, _)
RelaxFrom(es, i, weight, dist, que) ==
  IF i > Len(es) THEN <<dist, que>>
  ELSE LET e == es[i]
           next_weight == NextWeight(weight, e)
       IN  IF dist[e.to] <= next_weight
           THEN RelaxFrom(es, i + 1, weight, dist, que)
           ELSE RelaxFrom(es, i + 1, weight,
                          [dist EXCEPT ![e.to] = next_weight],
                          Append(que, <<next_weight, e.to>>))

\* while ( !que.empty() ) { ... }
RECURSIVE DijkstraLoop(_, _, _)
DijkstraLoop(gr, dist, que) ==
  IF que = <<>> THEN dist
  ELSE LET top == que[TopIndex(que)]
           weight == top[1]
           idx == top[2]
           rest == Pop(que)
       IN  IF dist[idx] < weight
           THEN DijkstraLoop(gr, dist, rest)
           ELSE LET r == RelaxFrom(gr[idx], 1, weight, dist, rest)
                IN  DijkstraLoop(gr, r[1], r[2])

Dijkstra(gr, from) ==
  DijkstraLoop(gr, [[v \in Vertices |-> INF] EXCEPT ![from] = 0], << <<0, from>> >>)

\* ----------------------------------------------------------- BellmanFord
MinOf(a, b) == IF b < a THEN b ELSE a

\* if (dist[e.from] == INF) continue;
SourceUnreachedNever(dist, e) == FALSE
SourceUnreached(dist, e) == dist[e.from] = INF

\* One sweep "for (auto &e : edges) { ... }" of the relaxation loop, from the
\* i-th edge on.
RECURSIVE BFSweep(_, _, _)
BFSweep(es, i, dist) ==
  IF i > Len(es) THEN dist
  ELSE LET e == es[i]
       IN  IF SourceUnreached(dist, e)
           THEN BFSweep(es, i + 1, dist)
           ELSE BFSweep(es, i + 1,
                        [dist EXCEPT ![e.to] = MinOf(dist[e.to], dist[e.from] + e.weight)])

\* for (int i = 0; i < vertex - 1; ++i) { sweep }
RECURSIVE BFPasses(_, _, _, _)
BFPasses(es, vertex, i, dist) ==
  IF i < vertex - 1 THEN BFPasses(es, vertex, i + 1, BFSweep(es, 1, dist)) ELSE dist

\* if (dist[e.from] + e.weight < dist[e.to]) return vector< T >();
StillRelaxableFlipped(dist, e) == dist[e.from] + e.weight > dist[e.to]
StillRelaxable(dist, e) == dist[e.from] + e.weight < dist[e.to]

\* The vector<T>() returned on a negative cycle.
EmptyVector == <<>>

BellmanFord(es, vertex, from) ==
  LET dist0 == [[v \in 0 .. (vertex - 1) |-> INF] EXCEPT ![from] = 0]
      dist == BFPasses(es, vertex, 0, dist0)
  IN  IF \E i \in 1 .. Len(es) :
           ~SourceUnreached(dist, es[i]) /\ StillRelaxable(dist, es[i])
      THEN EmptyVector
      ELSE dist

\* --------------------------------------- WarshallFloyd, add_edge_to_matrix
\* dist[e.from][e.to] = min(dist[e.from][e.to], e.weight);
InitEdgeOverwrite(dist, e) == [dist EXCEPT ![e.from][e.to] = e.weight]
InitEdge(dist, e) ==
  [dist EXCEPT ![e.from][e.to] = MinOf(dist[e.from][e.to], e.weight)]

\* for (auto &e : g[i]) { ... }, from the n-th edge of the list on.
RECURSIVE InitEdgesFrom(_, _, _)
InitEdgesFrom(es, n, dist) ==
  IF n > Len(es) THEN dist ELSE InitEdgesFrom(es, n + 1, InitEdge(dist, es[n]))

\* for (int i = 0; i < vertex; ++i) { for (auto &e : g[i]) ... }
RECURSIVE InitRows(_, _, _)
InitRows(gr, i, dist) ==
  IF i >= NumV THEN dist ELSE InitRows(gr, i + 1, InitEdgesFrom(gr[i], 1, dist))

\* if (dist[i][k] != INF && dist[k][j] != INF)
\*   dist[i][j] = min(dist[i][j], dist[i][k] + dist[k][j]);
RelaxUnguarded(dist, k, i, j) ==
  [dist EXCEPT ![i][j] = MinOf(dist[i][j], dist[i][k] + dist[k][j])]
Relax(dist, k, i, j) ==
  IF dist[i][k] # INF /\ dist[k][j] # INF
  THEN [dist EXCEPT ![i][j] = MinOf(dist[i][j], dist[i][k] + dist[k][j])]
  ELSE dist

\* for (i ...) for (j ...) Relax, for one k; n = i * vertex + j counts the pairs.
\* (Comparing d with dist makes TLC compute each update when it is made rather
\* than stack up the pending ones; both branches continue with the same matrix.)
RECURSIVE RelaxPairs(_, _, _)
RelaxPairs(dist, k, n) ==
  IF n >= NumV * NumV THEN dist
  ELSE LET d == Relax(dist, k, n \div NumV, n % NumV)
       IN  IF d = dist THEN RelaxPairs(dist, k, n + 1) ELSE RelaxPairs(d, k, n + 1)

\* for (int k = 0; k < vertex; ++k) { ... }
RECURSIVE RelaxVia(_, _)
RelaxVia(dist, k) ==
  IF k >= NumV THEN dist
  ELSE LET d == RelaxPairs(dist, k, 0)
       IN  IF d = dist THEN RelaxVia(dist, k + 1) ELSE RelaxVia(d, k + 1)

\* Matrix< T > dist(vertex, vector< T >(vertex, INF));
\* for (int i = 0; i < vertex; ++i) dist[i][i] = 0;
InitialMatrix == [i \in Vertices |-> [j \in Vertices |-> IF i = j THEN 0 ELSE INF]]

WarshallFloyd(gr) == RelaxVia(InitRows(gr, 0, InitialMatrix), 0)

\* mat[from][to] = mat[to][from] = min(mat[from][to], weight);
\* for (int k : {from, to}) { ... }
add_edge_to_matrix(m, from, to, weight) ==
  LET x == MinOf(m[from][to], weight)
      m1 == [m EXCEPT ![to][from] = x]
      m2 == [m1 EXCEPT ![from][to] = x]
  IN  RelaxPairs(RelaxPairs(m2, from, 0), to, 0)

\* ------------------------------------------------------------ UnionFind
\* UnionFind tree(V): every element its own set; uf maps an element to the
\* representative of its set.
UnionFind(n) == [v \in 0 .. (n - 1) |-> v]

\* tree.unite(a, b): <<whether a and b were in different sets, the new sets>>.
unite(uf, a, b) ==
  IF uf[a] = uf[b] THEN <<FALSE, uf>>
  ELSE <<TRUE, [v \in DOMAIN uf |-> IF uf[v] = uf[b] THEN uf[a] ELSE uf[v]]>>

\* -------------------------------------------------------------- Kruskal
\* The comparator of the sort: a.weight < b.weight.
WeightLessDescending(a, b) == a.weight > b.weight
WeightLess(a, b) == a.weight < b.weight

IndexOrders(n) ==
  {p \in [1 .. n -> 1 .. n] : \A i, j \in 1 .. n : i # j => p[i] # p[j]}

\* The orders sort(begin(edges), end(edges), cmp) may leave: std::sort is not
\* stable, so every permutation in which no element precedes one that compares
\* less than it is a possible outcome.
SortOutcomes(es) ==
  {[i \in 1 .. Len(es) |-> es[p[i]]] :
     p \in {q \in IndexOrders(Len(es)) :
              \A i, j \in 1 .. Len(es) : i < j => ~WeightLess(es[q[j]], es[q[i]])}}

\* for (auto & e : edges) if (tree.unite(e.from, e.to)) ret += e.weight;
RECURSIVE KruskalLoop(_, _, _, _)
KruskalLoop(es, i, tree, r) ==
  IF i > Len(es) THEN r
  ELSE LET u == unite(tree, es[i].from, es[i].to)
       IN  KruskalLoop(es, i + 1, u[2], IF u[1] THEN r + es[i].weight ELSE r)

\* Kruskal on edges already sorted: the part after the sort.
KruskalSorted(es, V) == KruskalLoop(es, 1, UnionFind(V), 0)

\* ------------------------------------------------------ TopologicalSort
Reverse(s) == [i \in 1 .. Len(s) |-> s[Len(s) + 1 - i]]

\* reverse(order.begin(), order.end());
FinishOrderUnreversed(s) == s
FinishOrder(s) == Reverse(s)

\* vector<int> color(V): every vertex 0.
Uncoloured == [v \in Vertices |-> 0]

\* visit(v) and its loop over g[v]; a state is [color, order], the result
\* [ok, color, order].
RECURSIVE visit(_, _, _, _), visitEdges(_, _, _, _, _)
visitEdges(gr, v, n, color, ord) ==
  IF n > Len(gr[v])
  THEN [ok |-> TRUE, color |-> [color EXCEPT ![v] = 2], order |-> Append(ord, v)]
  ELSE LET to == gr[v][n].to
       IN  IF color[to] = 2 THEN visitEdges(gr, v, n + 1, color, ord)
           ELSE IF color[to] = 1 THEN [ok |-> FALSE, color |-> color, order |-> ord]
           ELSE LET r == visit(gr, to, color, ord)
                IN  IF ~r.ok THEN r
                    ELSE visitEdges(gr, v, n + 1, r.color, r.order)
visit(gr, v, color, ord) == visitEdges(gr, v, 1, [color EXCEPT ![v] = 1], ord)

\* for (int i = 0; i < V; ++i) if (!color[i] && !visit(i)) return false;
RECURSIVE TopoRoots(_, _, _, _)
TopoRoots(gr, i, color, ord) ==
  IF i >= NumV THEN [ok |-> TRUE, order |-> FinishOrder(ord)]
  ELSE IF color[i] # 0 THEN TopoRoots(gr, i + 1, color, ord)
  ELSE LET r == visit(gr, i, color, ord)
       IN  IF ~r.ok THEN [ok |-> FALSE, order |-> r.order]
           ELSE TopoRoots(gr, i + 1, r.color, r.order)

\* Yields [ok: the bool returned, order: the vector order afterwards].
TopologicalSort(gr, ord) == TopoRoots(gr, 0, Uncoloured, ord)

\* ----------------------------------------------------- isBipartiteGraph
\* dfs(i, clr) and its loop over g[i]; a state is [color, ret].
RECURSIVE dfs(_, _, _, _), dfsEdges(_, _, _, _, _)
dfsEdges(gr, i, n, clr, st) ==
  IF n > Len(gr[i]) THEN st
  ELSE LET to == gr[i][n].to
       IN  IF st.color[to] = 0
           THEN dfsEdges(gr, i, n + 1, clr, dfs(gr, to, 0 - clr, st))
           ELSE IF st.color[to] = clr
           THEN dfsEdges(gr, i, n + 1, clr, [st EXCEPT !.ret = FALSE])
           ELSE dfsEdges(gr, i, n + 1, clr, st)
dfs(gr, i, clr, st) ==
  IF st.color[i] # 0 THEN st
  ELSE dfsEdges(gr, i, 1, clr, [st EXCEPT !.color[i] = clr])

\* dfs(0, 1); return ret;
isBipartiteGraph(gr) ==
  dfs(gr, 0, 1, [color |-> Uncoloured, ret |-> TRUE]).ret

\* ------------------------------------------------- reference definitions
Min(S) == CHOOSE x \in S : \A y \in S : x <= y

\* The total weights of the simple directed paths from u to v along arcs of
\* the set A of Edge objects that visit no vertex of seen (the empty path, of
\* weight 0, when u = v).
RECURSIVE PathWeights(_, _, _, _)
PathWeights(A, u, v, seen) ==
  IF u = v THEN {0}
  ELSE UNION {{e.weight + x : x \in PathWeights(A, e.to, v, seen \cup {u})} :
                e \in {a \in A : a.from = u /\ a.to \notin seen \cup {u}}}

Reachable(A, s, v) == PathWeights(A, s, v, {}) # {}
MinPathWeight(A, s, v) == Min(PathWeights(A, s, v, {}))

\* The total weights of the simple cycles through u: an arc out of u followed
\* by a simple path back to u (a self-loop when the arc returns at once).
CycleWeights(A, u) ==
  UNION {{e.weight + x : x \in PathWeights(A, e.to, u, {})} :
           e \in {a \in A : a.from = u}}
OnNegativeCycle(A, u) == \E x \in CycleWeights(A, u) : x < 0
HasNegativeCycle(A) == \E u \in Vertices : OnNegativeCycle(A, u)
NegativeCycleReachable(A, s) ==
  \E u \in Vertices : Reachable(A, s, u) /\ OnNegativeCycle(A, u)
HasCycle(A) == \E u \in Vertices : CycleWeights(A, u) # {}

\* Vertices joined to u by the edges of A taken as undirected.
RECURSIVE Component(_, _)
Component(A, S) ==
  LET T == S \cup {e.to : e \in {x \in A : x.from \in S}}
             \cup {e.from : e \in {x \in A : x.to \in S}}
  IN  IF T = S THEN S ELSE Component(A, T)
Joined(A, u, v) == v \in Component(A, {u})

RECURSIVE SumWeights(_, _)
SumWeights(es, I) ==
  IF I = {} THEN 0
  ELSE LET i == CHOOSE x \in I : TRUE
       IN  es[i].weight + SumWeights(es, I \ {i})

\* The index sets of the spanning forests of the edge list es: no edge closes a
\* cycle, and every two vertices joined by es are joined by the forest.
SpanningForests(es) ==
  LET Sub(I) == {es[i] : i \in I}
  IN  {I \in SUBSET (1 .. Len(es)) :
         /\ \A i \in I : ~Joined(Sub(I \ {i}), es[i].from, es[i].to)
         /\ \A u, v \in Vertices : Joined(ArcsOfList(es), u, v) => Joined(Sub(I), u, v)}
MinForestWeight(es) == Min({SumWeights(es, I) : I \in SpanningForests(es)})

\* A proper 2-colouring exists.
TwoColourable(A) ==
  \E c \in [Vertices -> {1, -1}] : \A e \in A : c[e.from] # c[e.to]

\* graphFromEdges: the graph built from the arcs of an edge list, in order.
RECURSIVE GraphFrom(_, _, _)
GraphFrom(es, i, gr) ==
  IF i > Len(es) THEN gr
  ELSE GraphFrom(es, i + 1, add_arc(gr, es[i].from, es[i].to, es[i].weight))
EmptyGraph == [v \in Vertices |-> <<>>]
GraphFromEdges(es) == GraphFrom(es, 1, EmptyGraph)

\* ------------------------------------------------------------ operations
NoCall == [op |-> "none"]

Init ==
  /\ g = EmptyGraph
  /\ edges = <<>>
  /\ mat = <<>>
  /\ order = <<>>
  /\ call = NoCall
  /\ ret = <<>>

\* add_edge(g,a,b,c);
AddEdge(W, limit) ==
  /\ call = NoCall
  /\ ArcCount(g) + 2 <= limit
  /\ \E a \in Vertices, b \in Vertices, w \in W : g' = add_edge(g, a, b, w)
  /\ UNCHANGED <<edges, mat, order, call, ret>>

\* add_arc(g,a,b,c);
AddArc(W, limit) ==
  /\ call = NoCall
  /\ ArcCount(g) + 1 <= limit
  /\ \E a \in Vertices, b \in Vertices, w \in W : g' = add_arc(g, a, b, w)
  /\ UNCHANGED <<edges, mat, order, call, ret>>

\* add_to_edges(edges,a,b,c);
AddToEdges(W, limit) ==
  /\ call = NoCall
  /\ Len(edges) + 1 <= limit
  /\ \E a \in Vertices, b \in Vertices, w \in W : edges' = add_to_edges(edges, a, b, w)
  /\ UNCHANGED <<g, mat, order, call, ret>>

\* auto dij = Dijkstra(g,s);
CallDijkstra ==
  /\ call = NoCall
  /\ \E s \in Vertices :
       /\ call' = [op |-> "Dijkstra", from |-> s]
       /\ ret' = Dijkstra(g, s)
  /\ UNCHANGED <<g, edges, mat, order>>

\* auto bf = BellmanFord(edges,V,s);
CallBellmanFord ==
  /\ call = NoCall
  /\ \E s \in Vertices :
       /\ call' = [op |-> "BellmanFord", from |-> s]
       /\ ret' = BellmanFord(edges, NumV, s)
  /\ UNCHANGED <<g, edges, mat, order>>

\* auto wf = WarshallFloyd(g);
CallWarshallFloyd ==
  /\ call = NoCall
  /\ call' = [op |-> "WarshallFloyd"]
  /\ mat' = WarshallFloyd(g)
  /\ ret' = mat'
  /\ UNCHANGED <<g, edges, order>>

\* add_edge_to_matrix(wf,a,b,c); on the matrix WarshallFloyd(g) returned
CallAddEdgeToMatrix ==
  /\ call.op = "WarshallFloyd"
  /\ \E a \in Vertices, b \in Vertices, w \in NonNegWeights :
       /\ call' = [op |-> "add_edge_to_matrix", from |-> a, to |-> b, weight |-> w]
       /\ mat' = add_edge_to_matrix(mat, a, b, w)
  /\ UNCHANGED <<g, edges, order, ret>>

\* auto k = Kruskal(edges,V); sorts the caller's edges in place
CallKruskal ==
  /\ call = NoCall
  /\ \E sorted \in SortOutcomes(edges) :
       /\ edges' = sorted
       /\ ret' = KruskalSorted(sorted, NumV)
  /\ call' = [op |-> "Kruskal", edges |-> edges]
  /\ UNCHANGED <<g, mat, order>>

\* TopologicalSort(g, ts);
CallTopologicalSort ==
  /\ call = NoCall
  /\ LET r == TopologicalSort(g, order)
     IN  /\ ret' = r.ok
         /\ order' = r.order
  /\ call' = [op |-> "TopologicalSort"]
  /\ UNCHANGED <<g, edges, mat>>

\* isBipartiteGraph(g);
CallIsBipartiteGraph ==
  /\ call = NoCall
  /\ call' = [op |-> "isBipartiteGraph"]
  /\ ret' = isBipartiteGraph(g)
  /\ UNCHANGED <<g, edges, mat, order>>

AddEdgeNonNeg == AddEdge(NonNegWeights, MaxArcs)
AddArcNonNeg == AddArc(NonNegWeights, MaxArcs)
AddEdgeOnly == AddEdge(Weights, 2 * MaxArcs)
AddEdgeMatrix == AddEdge(MatrixWeights, MaxArcs)
AddArcMatrix == AddArc(MatrixWeights, MaxArcs)
AddToEdgesWeighted == AddToEdges(Weights, MaxEdges)
AddEdgePlain == AddEdge(DefaultWeight, 2 * MaxArcs)
AddArcPlain == AddArc(DefaultWeight, MaxPlainArcs)

NextDijkstra == AddEdgeNonNeg \/ AddArcNonNeg \/ CallDijkstra
SpecDijkstra == Init /\ [][NextDijkstra]_vars

NextBellmanFord == AddToEdgesWeighted \/ CallBellmanFord
SpecBellmanFord == Init /\ [][NextBellmanFord]_vars

NextWarshallFloyd == AddEdgeMatrix \/ AddArcMatrix \/ CallWarshallFloyd
SpecWarshallFloyd == Init /\ [][NextWarshallFloyd]_vars

NextUndirected == AddEdgeOnly \/ CallWarshallFloyd
SpecUndirected == Init /\ [][NextUndirected]_vars

NextMatrix ==
  AddEdgeNonNeg \/ AddArcNonNeg \/ CallWarshallFloyd \/ CallAddEdgeToMatrix
SpecMatrix == Init /\ [][NextMatrix]_vars

NextKruskal == AddToEdgesWeighted \/ CallKruskal
SpecKruskal == Init /\ [][NextKruskal]_vars

NextTopologicalSort == AddArcPlain \/ CallTopologicalSort
SpecTopologicalSort == Init /\ [][NextTopologicalSort]_vars

NextBipartite == AddEdgePlain \/ CallIsBipartiteGraph
SpecBipartite == Init /\ [][NextBipartite]_vars

\* ---------------------------------------------------------------- claims
\* C1: on a graph whose weights are all >= 0, Dijkstra(g, s) returns a vector
\* of length vertexCount with dist[s] = 0 and dist[v] the least total weight of
\* a directed path from s to v, or INF when v is unreachable from s.
C1_DijkstraShortest ==
  call.op = "Dijkstra" =>
    LET A == ArcsOf(g)
    IN  /\ DOMAIN ret = Vertices
        /\ ret[call.from] = 0
        /\ \A v \in Vertices :
             ret[v] = IF Reachable(A, call.from, v)
                      THEN MinPathWeight(A, call.from, v)
                      ELSE INF

\* A call on a graph where a vertex has an arc from the source that is heavier
\* than the path found through another vertex (its first queue entry is stale).
C1_Witness ==
  /\ call.op = "Dijkstra"
  /\ \E e \in ArcsOf(g) :
       e.from = call.from /\ ret[e.to] > 0 /\ e.weight > ret[e.to]

\* C2: when a cycle of negative total weight is reachable from s, BellmanFord
\* returns the empty vector.
C2_NegativeCycleEmpty ==
  (call.op = "BellmanFord" /\ NegativeCycleReachable(ArcsOfList(edges), call.from))
    => DOMAIN ret = {}

\* A call that returned the empty vector for a negative cycle that does not
\* pass through the source but is reachable from it.
C2_Witness ==
  /\ call.op = "BellmanFord"
  /\ NegativeCycleReachable(ArcsOfList(edges), call.from)
  /\ ~OnNegativeCycle(ArcsOfList(edges), call.from)
  /\ DOMAIN ret = {}

C4_WarshallFloydShortest ==
  (call.op = "WarshallFloyd" /\ ~HasNegativeCycle(ArcsOf(g)))
    => LET A == ArcsOf(g)
       IN  /\ DOMAIN ret = Vertices
           /\ \A i \in Vertices :
                /\ DOMAIN ret[i] = Vertices
                /\ ret[i][i] = 0
                /\ \A j \in Vertices :
                     ret[i][j] = IF Reachable(A, i, j)
                                 THEN MinPathWeight(A, i, j)
                                 ELSE INF

\* A call on a graph with a negative arc and no negative cycle whose matrix
\* has an INF entry and a finite entry for a pair joined by no single arc.
C4_Witness ==
  /\ call.op = "WarshallFloyd"
  /\ ~HasNegativeCycle(ArcsOf(g))
  /\ \E e \in ArcsOf(g) : e.weight < 0
  /\ \E i, j \in Vertices : ret[i][j] = INF
  /\ \E i, j \in Vertices :
       /\ i # j
       /\ ret[i][j] < INF
       /\ ~\E e \in ArcsOf(g) : e.from = i /\ e.to = j

\* C5: the matrix WarshallFloyd returns has a negative diagonal entry iff the
\* graph has a negative cycle, and an all-zero diagonal when it has none.
C5_NegativeDiagonal ==
  call.op = "WarshallFloyd" =>
    /\ (\E i \in Vertices : ret[i][i] < 0) <=> HasNegativeCycle(ArcsOf(g))
    /\ ~HasNegativeCycle(ArcsOf(g)) => \A i \in Vertices : ret[i][i] = 0

\* A call whose matrix has a negative diagonal entry for a negative cycle of
\* more than one arc (the graph has no self-loop).
C5_Witness ==
  /\ call.op = "WarshallFloyd"
  /\ \E i \in Vertices : ret[i][i] < 0
  /\ \A e \in ArcsOf(g) : e.from # e.to

\* C6: add_edge_to_matrix(M, a, b, w) on M = WarshallFloyd(g) leaves M equal to
\* WarshallFloyd of g with the edge added by add_edge.
C6_IncrementalEqualsFull ==
  call.op = "add_edge_to_matrix" =>
    mat = WarshallFloyd(add_edge(g, call.from, call.to, call.weight))

\* C7: Kruskal returns the least total weight of a spanning forest.
C7_KruskalMinForest ==
  call.op = "Kruskal" => ret = MinForestWeight(call.edges)

\* A call that reordered the edges and skipped an edge joining two distinct
\* vertices because it would close a cycle.
C7_Witness ==
  /\ call.op = "Kruskal"
  /\ edges # call.edges
  /\ Len(edges) = 2
  /\ edges[2].from # edges[2].to
  /\ edges[1].weight < edges[2].weight
  /\ ret = edges[1].weight

\* C8: TopologicalSort returns true iff the graph has no directed cycle, and
\* then order is a permutation of the vertices with u before v for every arc.
C8_TopologicalOrder ==
  call.op = "TopologicalSort" =>
    /\ ret <=> ~HasCycle(ArcsOf(g))
    /\ ret => /\ Len(order) = NumV
              /\ {order[i] : i \in 1 .. Len(order)} = Vertices
              /\ \A e \in ArcsOf(g) :
                   \E i, j \in 1 .. Len(order) :
                     i < j /\ order[i] = e.from /\ order[j] = e.to

\* A successful call on a graph of at least three arcs whose order does not
\* start with vertex 0.
C8_Witness ==
  /\ call.op = "TopologicalSort"
  /\ ret = TRUE
  /\ ArcCount(g) >= 3
  /\ order[1] # 0

\* C9: on a graph built with add_edge only, connected or not, isBipartiteGraph
\* returns true iff the graph has a proper 2-colouring.
C9_BipartiteIff ==
  call.op = "isBipartiteGraph" => (ret <=> TwoColourable(ArcsOf(g)))

\* C10: on a graph built with add_edge only, with any weights, the matrix
\* WarshallFloyd returns is symmetric.
C10_Symmetric ==
  call.op = "WarshallFloyd" =>
    \A i, j \in Vertices : ret[i][j] = ret[j][i]

\* A call on a graph with a negative and a positive edge whose matrix has a
\* negative entry off the diagonal.
C10_Witness ==
  /\ call.op = "WarshallFloyd"
  /\ \E e \in ArcsOf(g) : e.weight < 0
  /\ \E e \in ArcsOf(g) : e.weight > 0
  /\ \E i, j \in Vertices : i # j /\ ret[i][j] < 0
====
